---- MODULE Spec2Model ----
(***************************************************************************)
(* Model of backend/app.py: the /process-github request handler and the    *)
(* functions it calls (clone_and_zip_repo, analyze_asp_project with its    *)
(* thread pool, classify_file_with_openai, generate_mvc_with_openai, the   *)
(* materialization loop, the in-memory archive, save_zip_to_downloads and  *)
(* the cleanup).  One request is followed from the arrival of its body to  *)
(* its response.  The repository content, the LLM's answers and the        *)
(* environment's failures are the nondeterministic inputs.                 *)
(*                                                                         *)
(* Paths are sequences of segments.  The content written into generated    *)
(* files is not modelled (lines 528-536 turn every value into a string and *)
(* no property below reads it); the names of the files are.                *)
(***************************************************************************)
EXTENDS Integers, Sequences, FiniteSets, TLC

\* ------------------------------------------------------------------ bounds
MaxFiles == 2      \* files in the cloned working tree
MaxKeys == 2       \* keys of the mapping the generation call returns

\* ThreadPoolExecutor() with no argument: min(32, cpu_count + 4) workers,
\* which is 5 on a one-processor machine.
PoolWorkers == 5

None == "<None>"
Absent == "<absent>"

Range(s) == {s[i] : i \in 1..Len(s)}

\* ------------------------------------------------------------- the request
\* The request body's "githubUrl": missing (data.get gives None), empty, or a
\* URL, split at '/' as line 513 splits it.
UrlPool ==
    { [given |-> FALSE, segs |-> << >>],
      [given |-> TRUE,  segs |-> <<"">>],
      [given |-> TRUE,  segs |-> <<"https:", "", "host", "user", "legacy.git">>],
      [given |-> TRUE,  segs |-> <<"", "srv", "repos", "legacy", "..">>] }

\* "not github_url" (line 500): None or the empty string
Falsy(url) == ~url.given \/ url.segs = <<"">>

\* str.replace('.git', '') on the last segment (line 513), for the segments
\* of UrlPool.
StripGit(seg) ==
    CASE seg = "legacy.git" -> "legacy"
      [] seg = ".git" -> ""
      [] OTHER -> seg

ProjectName(url) == StripGit(url.segs[Len(url.segs)])

\* ---------------------------------------------------------- the filesystem
TmpDir == <<"tmp">>                        \* tempfile.gettempdir()
ClonePath == TmpDir \o <<"clone">>         \* tempfile.mkdtemp() of line 64
OutputDir == TmpDir \o <<"out">>           \* tempfile.mkdtemp() of line 519
ZipPath == TmpDir \o <<"cloned_repo.zip">> \* line 79
Downloads == <<"home", "Downloads">>       \* Path.home() / "Downloads"

IsPrefix(p, q) == Len(p) <= Len(q) /\ SubSeq(q, 1, Len(p)) = p
Under(p, q) == IsPrefix(p, q) /\ Len(p) < Len(q)

\* What the operating system makes of a path: "." and "" are skipped, ".."
\* goes to the parent (the root is its own parent).
RECURSIVE Resolve(_)
Resolve(p) ==
    IF p = << >> THEN << >>
    ELSE LET h == Resolve(SubSeq(p, 1, Len(p) - 1))
             s == p[Len(p)]
         IN  IF s = "." \/ s = "" THEN h
             ELSE IF s = ".." THEN (IF h = << >> THEN h ELSE SubSeq(h, 1, Len(h) - 1))
             ELSE Append(h, s)

\* A key of the generated mapping: a path string, absolute or relative.
KeyPool ==
    { [abs |-> FALSE, segs |-> <<"a">>],
      [abs |-> FALSE, segs |-> <<"a", "b">>],
      [abs |-> FALSE, segs |-> <<".", "a">>],
      [abs |-> FALSE, segs |-> <<"..", "a">>],
      [abs |-> TRUE,  segs |-> <<"tmp", "evil">>] }

\* os.path.join(base, key): an absolute key discards the base.
Join(base, key) == IF key.abs THEN key.segs ELSE base \o key.segs

\* os.path.dirname
Dirname(p) == SubSeq(p, 1, Len(p) - 1)

\* The directories os.makedirs(p, exist_ok=True) needs to exist: every prefix.
Prefixes(p) == {Resolve(SubSeq(p, 1, n)) : n \in 0..Len(p)}

\* ------------------------------------------------------ the cloned project
FileOrder ==
    << [id |-> "index.asp",      dir |-> << >>,            name |-> "index",  ext |-> "asp", content |-> "text"],
       [id |-> "sub/PAGE.ASP",   dir |-> <<"sub">>,        name |-> "PAGE",   ext |-> "ASP", content |-> "text"],
       [id |-> "style.css",      dir |-> << >>,            name |-> "style",  ext |-> "css", content |-> ""],
       [id |-> "logo.js",        dir |-> << >>,            name |-> "logo",   ext |-> "js",  content |-> None],
       [id |-> ".git/hook.js",   dir |-> <<".git">>,       name |-> "hook",   ext |-> "js",  content |-> "text"],
       [id |-> "readme.md",      dir |-> << >>,            name |-> "readme", ext |-> "md",  content |-> "text"] >>

FilePool == Range(FileOrder)
FileIds == {f.id : f \in FilePool}
Info(id) == CHOOSE f \in FilePool : f.id = id

\* The path of a tree file inside the clone directory.
CloneFile(f) == ClonePath \o f.dir \o <<f.name \o "." \o f.ext>>

\* str.lower() on the extensions of FilePool
Lower(s) ==
    CASE s = "ASP" -> "asp"
      [] OTHER -> s

Extensions == {"asp", "asa", "inc", "html", "css", "js"}

\* Mutant: the walk does not prune .git.
Pruned_Never(f) == FALSE

\* os.walk with ".git" removed from dirs at every directory visited, and the
\* endswith test of line 186.
Pruned(f) == \E i \in 1..Len(f.dir) : f.dir[i] = ".git"
IsDiscovered(f) == ~Pruned(f) /\ Lower(f.ext) \in Extensions

\* The files of a tree in the order the walk meets them.
Discovered(t) == SelectSeq(FileOrder, LAMBDA f : f \in t /\ IsDiscovered(f))

\* read_file_content: None for a file that cannot be decoded.
read_file_content(f) == f.content

\* ------------------------------------------------------ the LLM's answers
Val(kind, cat, cls, reason, conv) ==
    [kind |-> kind, category |-> cat, classification |-> cls,
     reason |-> reason, conversion_type |-> conv]
\* a JSON object with (some of) the keys of a classification record
Obj(cat, cls, reason, conv) == Val("object", cat, cls, reason, conv)
\* a JSON value that is no object
Arr == Val("array", Absent, Absent, Absent, Absent)
\* text that is not JSON
Garbage == Val("garbage", Absent, Absent, Absent, Absent)

\* An answer of the LLM: text that holds a fenced json block (the text around
\* the block makes the whole no JSON) or no block.
Resp(fence, body) ==
    [fence |-> fence,
     block |-> IF fence THEN body ELSE Garbage,
     whole |-> IF fence THEN Garbage ELSE body]

NoResponse == [fence |-> FALSE, block |-> Garbage,
               whole |-> Val("none", Absent, Absent, Absent, Absent)]

ClsResponses ==
    { Resp(FALSE, Garbage),
      Resp(TRUE,  Garbage),
      Resp(FALSE, Obj("Views", "conversion_needed", "r", "Razor View")),
      Resp(TRUE,  Obj(Absent, "not_needed", "r", Absent)),
      Resp(FALSE, Obj("Services", "conversion_needed", "r", "Service")),
      Resp(TRUE,  Obj("Views", Absent, "r", "Razor View")),
      Resp(FALSE, Arr) }

\* json.loads: the value, or JSONDecodeError.
JsonDecodeError == Val("JSONDecodeError", Absent, Absent, Absent, Absent)
JsonLoads(body) == IF body.kind = "garbage" THEN JsonDecodeError ELSE body

\* Lines 138-142: the fenced block if the pattern matches, else the whole
\* response; both go through json.loads.
ParseResponse(r) == IF r.fence THEN JsonLoads(r.block) ELSE JsonLoads(r.whole)

DefaultClassification ==
    Obj("Other", "unknown", "JSON parsing error", "Unknown")

\* Mutant: the except clause of lines 143-151 is missing.
classify_result_NoFallback(r) == ParseResponse(r)

\* classify_file_with_openai, after the call returned r (lines 138-151).
classify_result(r) ==
    IF ParseResponse(r) = JsonDecodeError THEN DefaultClassification
    ELSE ParseResponse(r)

Buckets == {"Views", "Controllers", "Models", "Configurations", "Other"}

\* dict.get(key, default)
Get(v, field, default) == IF field = Absent THEN default ELSE field

\* Mutant: classification["category"] instead of .get("category", "Other").
analyze_outcome_NoDefault(c) ==
    IF c.kind /= "object" \/ c.category = Absent THEN "raise"
    ELSE IF c.category \notin {"Views", "Controllers", "Models", "Configurations", "Other"}
         THEN "skip"
    ELSE IF c.classification = Absent \/ c.reason = Absent THEN "raise"
    ELSE c.category

\* analyze_file after classification (lines 170-178): "raise" when the value
\* has no .get or a subscripted key is missing, "skip" when the category is no
\* bucket, else the bucket to append to.
analyze_outcome(c) ==
    IF c.kind /= "object" THEN "raise"
    ELSE LET category == Get(c, c.category, "Other")
         IN  IF category \notin Buckets THEN "skip"
             ELSE IF c.classification = Absent \/ c.reason = Absent THEN "raise"
             ELSE category

analyze_record(f, c) ==
    [file_path |-> f.id,
     classification |-> c.classification,
     reason |-> c.reason,
     conversion_type |-> Get(c, c.conversion_type, "Unknown"),
     content |-> read_file_content(f)]

EmptyStructure == [b \in Buckets |-> << >>]

\* ------------------------------------------------------------------- state
VARIABLES
    pc,                 \* where process_github stands
    github_url,         \* the body's githubUrl
    status,             \* 0 until the request is answered, then 200, 400 or 500
    raised,             \* the stage whose exception the handler caught, or "none"
    files, dirs,        \* the filesystem: paths of files and of directories
    tree,               \* the files of the cloned repository
    futures,            \* the futures list of analyze_asp_project, in order
    task,               \* per file: the state of its analyze_file task
    response,           \* per file: what its classification call returned
    llmCalls,           \* per file: classification requests issued
    project_structure,  \* the result buckets
    collected,          \* futures whose result() the main thread has taken
    genCalls,           \* generation requests issued
    genKind,            \* what the generation call returned
    mvc_content,        \* the keys of the generated mapping, in order
    written,            \* keys the materialization loop has handled
    archive             \* entry names of the in-memory zip

vars == <<pc, github_url, status, raised, files, dirs, tree, futures, task,
          response, llmCalls, project_structure, collected, genCalls, genKind,
          mvc_content, written, archive>>

fsVars == <<files, dirs>>
analysisVars == <<tree, futures, task, response, llmCalls, project_structure, collected>>
genVars == <<genCalls, genKind, mvc_content, written, archive>>

NoUrl == [given |-> FALSE, segs |-> << >>]

Init ==
    /\ pc = "request"
    /\ github_url = NoUrl
    /\ status = 0
    /\ raised = "none"
    /\ files = {}
    /\ dirs = {<< >>, TmpDir, <<"home">>}
    /\ tree = {}
    /\ futures = << >>
    /\ task = [id \in FileIds |-> "none"]
    /\ response = [id \in FileIds |-> NoResponse]
    /\ llmCalls = [id \in FileIds |-> 0]
    /\ project_structure = EmptyStructure
    /\ collected = 0
    /\ genCalls = 0
    /\ genKind = "none"
    /\ mvc_content = << >>
    /\ written = 0
    /\ archive = {}

\* Mutant: the handler swallows the exception and answers as on success.
HandlerSwallows(stage) ==
    /\ status' = 200
    /\ raised' = stage
    /\ pc' = "done"

\* Line 513.
project_name == ProjectName(github_url)

\* The except clause of lines 563-565: every exception raised inside the try
\* (the HTTPException of line 507 included) becomes a status-500 error.
HandlerCatches(stage) ==
    /\ status' = 500
    /\ raised' = stage
    /\ pc' = "done"

\* Lines 498-501.
Receive(url) ==
    /\ pc = "request"
    /\ github_url' = url
    /\ IF Falsy(url)
       THEN status' = 400 /\ pc' = "done"
       ELSE status' = status /\ pc' = "clone"
    /\ UNCHANGED <<raised, fsVars, analysisVars, genVars>>

\* clone_and_zip_repo, the clone and the zip succeeding (lines 64-88).
CloneOk(t) ==
    /\ pc = "clone"
    /\ tree' = t
    /\ dirs' = dirs \cup UNION {Prefixes(Dirname(CloneFile(f))) : f \in t} \cup {ClonePath}
    /\ files' = files \cup {CloneFile(f) : f \in t} \cup {ZipPath}
    /\ pc' = "submit"
    /\ UNCHANGED <<github_url, status, raised, futures, task, response, llmCalls,
                   project_structure, collected, genVars>>

\* clone_and_zip_repo, git failing (check=True raises, lines 89-91 return
\* None, None) and line 507 raising inside the try.
CloneFail ==
    /\ pc = "clone"
    /\ dirs' = dirs \cup {ClonePath}
    /\ HandlerCatches("clone")
    /\ UNCHANGED <<github_url, files, analysisVars, genVars>>

\* One iteration of the loop of lines 185-188: the next discovered file is
\* submitted to the executor.
Submit ==
    /\ pc = "submit"
    /\ Len(futures) < Len(Discovered(tree))
    /\ LET f == Discovered(tree)[Len(futures) + 1]
       IN  /\ futures' = Append(futures, f.id)
           /\ task' = [task EXCEPT ![f.id] = "queued"]
    /\ UNCHANGED <<pc, github_url, status, raised, fsVars, tree, response, llmCalls,
                   project_structure, collected, genVars>>

\* The walk is over; the main thread turns to the loop of line 190.
WalkDone ==
    /\ pc = "submit"
    /\ Len(futures) = Len(Discovered(tree))
    /\ pc' = "collect"
    /\ UNCHANGED <<github_url, status, raised, fsVars, analysisVars, genVars>>

\* The tasks whose LLM call is in flight.
Calling == {id \in FileIds : task[id] = "calling"}

Running == {id \in FileIds : task[id] \in {"calling", "hung"}}

\* Mutant: a pool of one worker.
StartTask_SingleWorker(id) ==
    /\ task[id] = "queued"
    /\ Cardinality(Running) < 1
    /\ LET content == read_file_content(Info(id))
       IN  IF content = None \/ content = ""
           THEN task' = [task EXCEPT ![id] = "done"] /\ llmCalls' = llmCalls
           ELSE /\ task' = [task EXCEPT ![id] = "calling"]
                /\ llmCalls' = [llmCalls EXCEPT ![id] = @ + 1]
    /\ UNCHANGED <<pc, github_url, status, raised, fsVars, tree, futures, response,
                   project_structure, collected, genVars>>

\* A pool worker takes a queued task: analyze_file up to the LLM call
\* (lines 166-169 and 105-135).
StartTask(id) ==
    /\ task[id] = "queued"
    /\ Cardinality(Running) < PoolWorkers
    /\ LET content == read_file_content(Info(id))
       IN  IF content = None \/ content = ""
           THEN task' = [task EXCEPT ![id] = "done"] /\ llmCalls' = llmCalls
           ELSE /\ task' = [task EXCEPT ![id] = "calling"]
                /\ llmCalls' = [llmCalls EXCEPT ![id] = @ + 1]
    /\ UNCHANGED <<pc, github_url, status, raised, fsVars, tree, futures, response,
                   project_structure, collected, genVars>>

\* The call returns r: the rest of classify_file_with_openai and of
\* analyze_file (lines 138-151, 170-178).  list.append is atomic.
LLMRespond(id, r) ==
    /\ task[id] = "calling"
    /\ response' = [response EXCEPT ![id] = r]
    /\ LET c == classify_result(r)
           o == analyze_outcome(c)
       IN  /\ task' = [task EXCEPT ![id] = IF o = "raise" THEN "failed" ELSE "done"]
           /\ project_structure' =
                 IF o \in Buckets
                 THEN [project_structure EXCEPT ![o] = Append(@, analyze_record(Info(id), c))]
                 ELSE project_structure
    /\ UNCHANGED <<pc, github_url, status, raised, fsVars, tree, futures, llmCalls,
                   collected, genVars>>

\* The call raises (a network or API error): no except clause of
\* classify_file_with_openai catches it, the future holds the exception.
LLMRaise(id) ==
    /\ task[id] = "calling"
    /\ task' = [task EXCEPT ![id] = "failed"]
    /\ UNCHANGED <<pc, github_url, status, raised, fsVars, tree, futures, response,
                   llmCalls, project_structure, collected, genVars>>

\* The call never returns (no timeout is set on the chain).
LLMHang(id) ==
    /\ task[id] = "calling"
    /\ task' = [task EXCEPT ![id] = "hung"]
    /\ UNCHANGED <<pc, github_url, status, raised, fsVars, tree, futures, response,
                   llmCalls, project_structure, collected, genVars>>

Finished(id) == task[id] \in {"done", "failed"}

\* Mutant: no try/except around future.result(); the exception of a failed
\* future leaves analyze_asp_project and reaches the handler.
Collect_Propagates ==
    /\ pc = "collect"
    /\ collected < Len(futures)
    /\ Finished(futures[collected + 1])
    /\ IF task[futures[collected + 1]] = "failed"
       THEN HandlerCatches("analysis") /\ collected' = collected
       ELSE collected' = collected + 1 /\ UNCHANGED <<pc, status, raised>>
    /\ UNCHANGED <<github_url, fsVars, tree, futures, task,
                   response, llmCalls, project_structure, genVars>>

\* One iteration of lines 190-194: future.result() blocks until the future
\* has finished; its exception, if any, is caught and printed.
Collect ==
    /\ pc = "collect"
    /\ collected < Len(futures)
    /\ Finished(futures[collected + 1])
    /\ collected' = collected + 1
    /\ UNCHANGED <<pc, github_url, status, raised, fsVars, tree, futures, task,
                   response, llmCalls, project_structure, genVars>>

\* Mutant: the function returns without waiting for the futures.
AnalysisReturns_Early ==
    /\ pc = "collect"
    /\ pc' = "generate"
    /\ UNCHANGED <<github_url, status, raised, fsVars, analysisVars, genVars>>

\* Leaving the with block (executor.shutdown(wait=True)) and returning
\* project_structure (line 196).
AnalysisReturns ==
    /\ pc = "collect"
    /\ collected = Len(futures)
    /\ \A id \in Range(futures) : Finished(id)
    /\ pc' = "generate"
    /\ UNCHANGED <<github_url, status, raised, fsVars, analysisVars, genVars>>


\* Line 516: the generation request is issued (lines 199-435).
GenCall ==
    /\ pc = "generate"
    /\ genCalls' = genCalls + 1
    /\ pc' = "gen_wait"
    /\ UNCHANGED <<github_url, status, raised, fsVars, analysisVars, genKind,
                   mvc_content, written, archive>>

\* The mappings the generation call may return: JSON objects whose keys are
\* paths, in the order json.loads keeps them.
RECURSIVE KeySeqs(_)
KeySeqs(n) ==
    IF n = 0 THEN {<< >>}
    ELSE KeySeqs(n - 1) \cup
         {Append(m, k) : m \in {x \in KeySeqs(n - 1) : Len(x) = n - 1},
                         k \in KeyPool}

Mappings == {m \in KeySeqs(MaxKeys) : \A i, j \in 1..Len(m) : i /= j => m[i] /= m[j]}

\* generate_mvc_with_openai after the call returned r (lines 441-449):
\* JSONDecodeError gives the empty mapping; any JSON value is returned as is.
generate_result(r, m) ==
    IF ParseResponse(r) = JsonDecodeError THEN [kind |-> "malformed", keys |-> << >>]
    ELSE IF ParseResponse(r).kind = "object" THEN [kind |-> "object", keys |-> m]
    ELSE [kind |-> "array", keys |-> << >>]

GenResponses ==
    { Resp(FALSE, Garbage), Resp(TRUE, Garbage), Resp(FALSE, Arr),
      Resp(TRUE, Obj(Absent, Absent, Absent, Absent)),
      Resp(FALSE, Obj(Absent, Absent, Absent, Absent)) }

\* The generation call returns r, an answer whose JSON object (if it is one)
\* has the keys m.
GenRespond(r, m) ==
    /\ pc = "gen_wait"
    /\ genKind' = generate_result(r, m).kind
    /\ mvc_content' = generate_result(r, m).keys
    /\ pc' = "mkdirs"
    /\ UNCHANGED <<github_url, status, raised, fsVars, analysisVars, genCalls,
                   written, archive>>

\* The generation call raises an exception that is no JSONDecodeError.
GenRaise ==
    /\ pc = "gen_wait"
    /\ HandlerCatches("generation")
    /\ UNCHANGED <<github_url, fsVars, analysisVars, genVars>>

\* os.path.join(output_dir, project_name), line 520
project_dir == OutputDir \o <<project_name>>

\* Lines 519-521: mkdtemp and makedirs(project_dir, exist_ok=True).
MakeOutputDir ==
    /\ pc = "mkdirs"
    /\ dirs' = dirs \cup {OutputDir} \cup Prefixes(project_dir)
    /\ pc' = "write"
    /\ UNCHANGED <<github_url, status, raised, files, analysisVars, genVars>>

\* mvc_content.items() on a value that is no dict (line 524).
WriteNoMapping ==
    /\ pc = "write"
    /\ genKind = "array"
    /\ HandlerCatches("materialization")
    /\ UNCHANGED <<github_url, fsVars, analysisVars, genVars>>

\* The directories makedirs creates before it meets a file in its way.
Creatable(p) == {d \in Prefixes(p) : \A f \in files : ~IsPrefix(f, d)}

\* One iteration of the loop of lines 524-536.  makedirs raises when a
\* component of the directory is a file, open raises when the path is a
\* directory.
WriteFile ==
    /\ pc = "write"
    /\ genKind /= "array"
    /\ written < Len(mvc_content)
    /\ LET file_path == Join(project_dir, mvc_content[written + 1])
           need == Prefixes(Dirname(file_path))
           target == Resolve(file_path)
       IN  /\ dirs' = dirs \cup Creatable(Dirname(file_path))
           /\ IF need \cap files /= {} \/ target \in dirs \cup need
              THEN /\ HandlerCatches("materialization")
                   /\ UNCHANGED <<files, written>>
              ELSE /\ files' = files \cup {target}
                   /\ written' = written + 1
                   /\ UNCHANGED <<pc, status, raised>>
    /\ UNCHANGED <<github_url, analysisVars, genCalls, genKind, mvc_content, archive>>

\* os.walk(project_dir) with arcname = relpath(file_path, project_dir)
\* (lines 541-545, 477-481): the files below the directory, by relative path.
ZipEntries(root) ==
    {SubSeq(f, Len(Resolve(root)) + 1, Len(f)) : f \in {g \in files : Under(Resolve(root), g)}}

\* Lines 539-545: the in-memory zip.
Archive ==
    /\ pc = "write"
    /\ genKind /= "array"
    /\ written = Len(mvc_content)
    /\ archive' = ZipEntries(project_dir)
    /\ pc' = "save"
    /\ UNCHANGED <<github_url, status, raised, fsVars, analysisVars, genCalls,
                   genKind, mvc_content, written>>

\* save_zip_to_downloads with the Downloads folder present (lines 471-494).
SaveZipOk ==
    /\ pc = "save"
    /\ dirs' = dirs \cup {Downloads}
    /\ files' = files \cup {Downloads \o <<project_name \o ".zip">>}
    /\ pc' = "cleanup"
    /\ UNCHANGED <<github_url, status, raised, analysisVars, genVars>>

\* save_zip_to_downloads with no Downloads folder: open (line 491) raises.
SaveZipFail ==
    /\ pc = "save"
    /\ HandlerCatches("save")
    /\ UNCHANGED <<github_url, fsVars, analysisVars, genVars>>

RemoveTree(paths, root) == {p \in paths : ~IsPrefix(root, p)}

\* Lines 551-553: both temporary directories are removed.
CleanupOk ==
    /\ pc = "cleanup"
    /\ files' = RemoveTree(RemoveTree(files, ClonePath), OutputDir)
    /\ dirs' = RemoveTree(RemoveTree(dirs, ClonePath), OutputDir)
    /\ pc' = "respond"
    /\ UNCHANGED <<github_url, status, raised, analysisVars, genVars>>

\* rmtree raises: handle_remove_readonly retries the removal after chmod and
\* the retry fails (lines 97-99).
CleanupFail ==
    /\ pc = "cleanup"
    /\ HandlerCatches("cleanup")
    /\ UNCHANGED <<github_url, fsVars, analysisVars, genVars>>

\* Lines 556-561: the StreamingResponse.
Respond ==
    /\ pc = "respond"
    /\ status' = 200
    /\ pc' = "done"
    /\ UNCHANGED <<github_url, raised, fsVars, analysisVars, genVars>>

Trees == {t \in SUBSET FilePool : Cardinality(t) <= MaxFiles}

Next ==
    \/ pc = "request" /\ \E url \in UrlPool : Receive(url)
    \/ pc = "clone" /\ \E t \in Trees : CloneOk(t)
    \/ CloneFail
    \/ Submit
    \/ WalkDone
    \/ \E id \in Range(futures) : StartTask(id)
    \/ \E id \in Calling : \E r \in ClsResponses : LLMRespond(id, r)
    \/ \E id \in Calling : LLMRaise(id)
    \/ \E id \in Calling : LLMHang(id)
    \/ Collect
    \/ AnalysisReturns
    \/ GenCall
    \/ pc = "gen_wait" /\ \E r \in GenResponses, m \in Mappings : GenRespond(r, m)
    \/ GenRaise
    \/ MakeOutputDir
    \/ WriteNoMapping
    \/ WriteFile
    \/ Archive
    \/ SaveZipOk
    \/ SaveZipFail
    \/ CleanupOk
    \/ CleanupFail
    \/ Respond

Spec == Init /\ [][Next]_vars

\* =================================================================== claims
\* analyze_asp_project has just returned (line 510); no later step of the
\* request touches its variables.
AnalysisReturned == pc = "generate"

\* The entries <<bucket, record>> of the result that belong to a file.
RecordsOf(id) ==
    UNION {{<<b, project_structure[b][i]>> : i \in {j \in 1..Len(project_structure[b]) :
                                                      project_structure[b][j].file_path = id}} :
           b \in Buckets}

\* How often a file occurs in the result, over all buckets.
Occurrences(id) ==
    Cardinality(UNION {{<<b, i>> : i \in {j \in 1..Len(project_structure[b]) :
                                           project_structure[b][j].file_path = id}} :
                       b \in Buckets})

\* Neither the answer's text nor a fenced block of it is JSON.
Malformed(r) == r /= NoResponse /\ r.whole.kind = "garbage" /\ r.block.kind = "garbage"

\* C1: whenever the archival step has been reached, the archive's entries
\* are exactly the files the keys of the generated mapping name: every key
\* is an entry and every entry is a key.  Names are compared as the files
\* they denote under the project directory, so that the key ./a counts as the
\* entry a.  Stated for the requests whose project name is an ordinary
\* directory name, which the claim covers.
C1_ArchiveIsMapping ==
    (pc = "save" /\ project_name = "legacy") =>
        {Resolve(project_dir) \o e : e \in archive} =
            {Resolve(Join(project_dir, k)) : k \in Range(mvc_content)}

Eligible(f) ==
    /\ f \in tree
    /\ \A i \in 1..Len(f.dir) : f.dir[i] /= ".git"
    /\ f.ext \in {"asp", "ASP", "asa", "inc", "html", "css", "js"}
    /\ f.content \notin {None, ""}

\* C4 as claimed: when the analysis has returned, every discovered file has
\* had exactly one classification request.
C4_OneRequestPerDiscovered ==
    AnalysisReturned =>
        \A f \in Range(Discovered(tree)) : llmCalls[f.id] = 1

\* C4 amended: no file ever gets more than one request, and when the
\* analysis has returned a file has had exactly one request if it is a
\* discovered file whose content could be read and is not empty, and none
\* otherwise.
C4_OneRequestPerReadable ==
    /\ \A f \in FilePool : llmCalls[f.id] <= 1
    /\ AnalysisReturned =>
          \A f \in FilePool : llmCalls[f.id] = IF Eligible(f) THEN 1 ELSE 0

C4_Witness ==
    /\ AnalysisReturned
    /\ \E f, g \in Range(Discovered(tree)) :
          llmCalls[f.id] = 1 /\ llmCalls[g.id] = 0 /\ g.content = None

HungTasks == {id \in FileIds : task[id] = "hung"}

\* The result holds what the answer to the file's request calls for.
Settled(id) ==
    /\ Finished(id)
    /\ (response[id] /= NoResponse /\ analyze_outcome(classify_result(response[id])) \in Buckets)
          => Occurrences(id) = 1

\* C5 as claimed: nothing but the hung future is blocked forever, so an
\* unanswered request can always take a further step.
C5_NothingElseBlocked ==
    pc = "done" \/ ENABLED Next

\* C5 amended: while a classification call hangs the analysis does not
\* return (the main thread waits for every future without a timeout), so the
\* request is never answered; and when nothing can move any more, every
\* other submitted file has been classified to completion and its record is
\* in the result, provided fewer calls hang than the pool has workers.
C5_HangBlocksRequestOnly ==
    /\ HungTasks /= {} => pc \in {"submit", "collect"} /\ status = 0
    /\ (pc \in {"submit", "collect"} /\ Cardinality(HungTasks) < PoolWorkers
          /\ ~ENABLED Next) =>
          /\ HungTasks /= {}
          /\ \A id \in Range(futures) \ HungTasks : Settled(id)

C5_Witness ==
    /\ pc = "collect"
    /\ ~ENABLED Next
    /\ \E id \in HungTasks, other \in Range(futures) \ HungTasks :
          Occurrences(other) = 1 /\ collected < Len(futures)

\* C6: when the request has been answered, neither the temporary clone
\* directory nor the temporary output directory exists any more.
C6_TempDirsRemoved ==
    pc = "done" => ClonePath \notin dirs /\ OutputDir \notin dirs

\* C7: when the generation answer is not JSON the mapping is empty, and a
\* request in which no later stage raised is answered with status 200 and an
\* archive without entries.
C7_MalformedGenerationEmptyArchive ==
    /\ genKind = "malformed" => mvc_content = << >>
    /\ (pc = "done" /\ genKind = "malformed" /\ raised = "none") =>
          status = 200 /\ archive = {}

\* C8: the generation request is issued at most once, and only when every
\* discovered file has been submitted and every submitted future has
\* finished; an answered request whose clone succeeded has issued it exactly
\* once; the output directory and the generated files exist only after the
\* generation call returned; the archive is built only after the loop over
\* the mapping has ended; the success response is produced only after both
\* temporary directories have been removed.
C8_StageOrder ==
    /\ genCalls <= 1
    /\ genCalls = 1 =>
          /\ Len(futures) = Len(Discovered(tree))
          /\ collected = Len(futures)
          /\ \A id \in FileIds : task[id] \in {"none", "done", "failed"}
    /\ (pc = "done" /\ ZipPath \in files) => genCalls = 1
    /\ (pc \in {"request", "clone", "submit", "collect", "generate"}) => genCalls = 0
    /\ (OutputDir \in dirs \/ written > 0) => (genCalls = 1 /\ genKind /= "none")
    /\ pc \in {"save", "cleanup", "respond"} => written = Len(mvc_content)
    /\ (pc = "respond" \/ status = 200) =>
          /\ ClonePath \notin dirs /\ OutputDir \notin dirs
          /\ Downloads \o <<project_name \o ".zip">> \in files

C8_Witness ==
    /\ pc = "done" /\ status = 200
    /\ Len(futures) = 2 /\ written = 2
    /\ \E id \in FileIds : task[id] = "failed"

\* What a file contributes to the result, from the answer to its own
\* request alone: nothing without an answer or when the answer is no JSON
\* object, lacks classification or reason, or names a category that is no
\* bucket; the default record in Other when the answer is not JSON; else
\* its record in the bucket of its category, Other when it has none.
Contribution(id) ==
    LET r == response[id]
        v == IF r.fence THEN r.block ELSE r.whole
        rec(cls, reason, conv) ==
            [file_path |-> id, classification |-> cls, reason |-> reason,
             conversion_type |-> conv, content |-> Info(id).content]
    IN  IF r = NoResponse THEN {}
        ELSE IF v.kind = "garbage"
             THEN {<<"Other", rec("unknown", "JSON parsing error", "Unknown")>>}
        ELSE IF v.kind /= "object" \/ v.classification = Absent \/ v.reason = Absent
             THEN {}
        ELSE IF v.category \notin Buckets \cup {Absent} THEN {}
        ELSE {<<IF v.category = Absent THEN "Other" ELSE v.category,
                rec(v.classification, v.reason,
                    IF v.conversion_type = Absent THEN "Unknown" ELSE v.conversion_type)>>}

\* C9: a task that raised is passed over by the main thread, the analysis
\* raises nothing, a failed task has no record in the result, and every
\* other file's records are those its own answer calls for.
C9_FailureIsolated ==
    /\ raised /= "analysis"
    /\ (pc = "collect" /\ collected < Len(futures)
          /\ task[futures[collected + 1]] = "failed") => ENABLED Collect
    /\ \A id \in FileIds : task[id] = "failed" => RecordsOf(id) = {}
    /\ AnalysisReturned =>
          \A id \in FileIds : RecordsOf(id) = Contribution(id)

C9_Witness ==
    /\ pc = "generate"
    /\ \E id, other \in Range(futures) :
          /\ task[id] = "failed" /\ response[id] = NoResponse
          /\ task[other] = "done" /\ Occurrences(other) = 1

\* The value classify_file_with_openai returned for a file, if its call
\* returned.
Returned(id) == response[id] /= NoResponse /\ classify_result(response[id]).kind = "object"

\* C10 as claimed: when the analysis has returned, each file whose call
\* returned a record occurs exactly once in the result, in the bucket its
\* category names, or Other when it has none.
C10_EveryRecordOnce ==
    AnalysisReturned =>
        \A id \in FileIds :
            Returned(id) =>
                /\ Occurrences(id) = 1
                /\ \E e \in RecordsOf(id) :
                      e[1] = Get(classify_result(response[id]),
                                 classify_result(response[id]).category, "Other")

\* C10 amended: when the analysis has returned, each file whose call
\* returned a record that has a classification and a reason and whose
\* category is absent or one of the five bucket names occurs exactly once, in
\* that bucket (Other when absent); every other file occurs nowhere; no bucket
\* holds a file twice; and the set of records of each bucket is fixed by the
\* answers alone, whatever the order of completion.
C10_WellFormedRecordOnce ==
    AnalysisReturned =>
        /\ \A id \in FileIds :
              Occurrences(id) = IF Contribution(id) = {} THEN 0 ELSE 1
        /\ \A b \in Buckets :
              /\ Cardinality(Range(project_structure[b])) = Len(project_structure[b])
              /\ Range(project_structure[b]) =
                    {e[2] : e \in {x \in UNION {Contribution(id) : id \in FileIds} : x[1] = b}}

C10_Witness ==
    /\ AnalysisReturned
    /\ Len(project_structure["Other"]) = 2
    /\ project_structure["Other"][1].file_path = "sub/PAGE.ASP"
    /\ project_structure["Other"][2].classification = "not_needed"

\* The files and directories that exist because of the materialization step
\* (lines 519-536): everything that was not there when the clone ended.
MaterializedPaths ==
    (files \ ({CloneFile(f) : f \in tree} \cup {ZipPath}))
    \cup (dirs \ (UNION {Prefixes(Dirname(CloneFile(f))) : f \in tree}
                  \cup {<< >>, TmpDir, <<"home">>, ClonePath, OutputDir}))

\* C11: while and after the mapping is materialized, every file and directory
\* the step has created lies in the request's project directory, and that
\* directory lies in the temporary output directory.
C11_WritesInsideProjectDir ==
    pc \in {"write", "save"} =>
        \A p \in MaterializedPaths :
            IsPrefix(Resolve(project_dir), p) /\ Under(OutputDir, p)

====
